---- MODULE Spec2Model ----
(***************************************************************************)
(* The poll / ballot state machine of src/src/contract.rs.                 *)
(*                                                                         *)
(* The storage is the pair of maps POLLS (poll_id -> Poll) and BALLOTS     *)
(* ((account, poll_id) -> Ballot).  The handlers are modelled as they act  *)
(* on the storage object they are handed (deps.storage): a write made      *)
(* before an error return stays written, as it does under the repository's *)
(* tests (mock_dependencies).  CONFIG is written by instantiate and read   *)
(* by no handler, so it is not part of the state.                          *)
(*                                                                         *)
(* Option counts are u64.  TLC's integers are 32 bits wide, so the count   *)
(* type is narrowed to CountModulus values; the arithmetic keeps the       *)
(* shape of the code's: `-= 1` on 0 and `+= 1` on the largest value either *)
(* panic (a build with overflow checks: debug, tests) or wrap (a release   *)
(* build without them).  Which of the two is fixed per build and chosen in *)
(* Init.  A panic ends the run: no handler runs after it.                  *)
(***************************************************************************)
EXTENDS Integers, Sequences, FiniteSets, TLC

VARIABLES
    polls,            \* POLLS:   function, DOMAIN = the stored poll_ids
    ballots,          \* BALLOTS: function, DOMAIN = the stored <<account, poll_id>>
    overflow_checks,  \* TRUE: integer overflow panics; FALSE: it wraps
    created,          \* history: poll_ids for which a create_poll returned Ok
    nops,             \* number of execute messages handled so far
    last,             \* the last message handled, with what it returned
    shadow            \* SpecV: the storage and last result of the validate-first
                      \* cast_vote, fed the same messages; off elsewhere

vars == <<polls, ballots, overflow_checks, created, nops, last, shadow>>

----------------------------------------------------------------------------
(* Bounds and inputs *)

\* execute messages handled in a run of Spec
MaxOps == 5

\* execute messages handled in a run of SpecQ, where queries follow every state
MaxQueryOps == 3

\* the narrowed range of a count (u64 in the code)
CountModulus == 16

\* options.len() > 5
MaxOptions == 5

ADDR1 == "addr1"
ADDR2 == "addr2"
Accounts == {ADDR1, ADDR2}

\* a string that is no valid address
BadAddress == ""
Addresses == Accounts \cup {BadAddress}

\* poll_ids are strings, written as their byte sequences: "01" and "1",
\* and "0" besides them where the polls are listed
PollIds == {<<48, 49>>, <<49>>}
QueryPollIds == PollIds \cup {<<48>>}

Questions == {"Wen moon?"}

VoteLabels == {"Now", "Soon", "Pizza"}

OptionLists ==
    { <<"Now", "Soon">>,
      <<"Soon", "Soon">>,
      <<"Now", "Soon", "Never", "1", "2">>,
      <<"Now", "Soon", "Never", "1", "2", "3">> }

----------------------------------------------------------------------------
(* Option<T> *)

None == <<>>
Some(v) == <<v>>
unwrap(o) == o[1]

(* Map::may_load / Map::save *)
may_load(map, key) == IF key \in DOMAIN map THEN Some(map[key]) ELSE None

save(map, key, value) ==
    [k \in DOMAIN map \cup {key} |-> IF k = key THEN value ELSE map[k]]

(* iter().position(|option| option.0 == label): the first index, if any *)
position(options, label) ==
    LET hits == {i \in 1..Len(options) : options[i][1] = label}
    IN  IF hits = {} THEN None
        ELSE Some(CHOOSE i \in hits : \A j \in hits : i <= j)

\* mutant of set_count: the option is removed and pushed back with its new count
set_count_push_back(options, i, c) ==
    SubSeq(options, 1, i - 1) \o SubSeq(options, i + 1, Len(options))
        \o <<(<<options[i][1], c>>)>>

(* options[i].1 = c *)
set_count(options, i, c) ==
    [options EXCEPT ![i] = <<options[i][1], c>>]

----------------------------------------------------------------------------
(* u64 arithmetic on a count *)

\* `count -= 1`: Some(new count), or None when it panics
checked_dec(checks, c) ==
    IF c = 0
    THEN IF checks THEN None ELSE Some(CountModulus - 1)
    ELSE Some(c - 1)

\* `count += 1`: Some(new count), or None when it panics
checked_inc(checks, c) ==
    IF c = CountModulus - 1
    THEN IF checks THEN None ELSE Some(0)
    ELSE Some(c + 1)

----------------------------------------------------------------------------
(* execute_create_poll: the handler's result and the POLLS it leaves *)

\* mutant of new_options: the options are stored in reverse order
new_options_reversed(options) ==
    [i \in 1..Len(options) |-> <<options[Len(options) + 1 - i], 0>>]

\* opts.push((option, 0)) for each option, in order
new_options(options) == [i \in 1..Len(options) |-> <<options[i], 0>>]

\* mutant of execute_create_poll: the ceiling is tested with >=
execute_create_poll_off_by_one(ps, sender, poll_id, question, options) ==
    IF Len(options) >= MaxOptions
    THEN [result |-> "TooManyOptions", polls |-> ps]
    ELSE LET poll == [creator  |-> sender,
                      question |-> question,
                      options  |-> [i \in 1..Len(options) |-> <<options[i], 0>>]]
         IN  [result |-> "Ok", polls |-> save(ps, poll_id, poll)]

\* mutant of execute_create_poll: a stored poll is not overwritten
execute_create_poll_keep_existing(ps, sender, poll_id, question, options) ==
    IF Len(options) > MaxOptions
    THEN [result |-> "TooManyOptions", polls |-> ps]
    ELSE LET poll == [creator  |-> sender,
                      question |-> question,
                      options  |-> [i \in 1..Len(options) |-> <<options[i], 0>>]]
         IN  [result |-> "Ok",
              polls  |-> IF poll_id \in DOMAIN ps THEN ps ELSE save(ps, poll_id, poll)]

execute_create_poll(ps, sender, poll_id, question, options) ==
    IF Len(options) > MaxOptions
    THEN [result |-> "TooManyOptions", polls |-> ps]
    ELSE LET poll == [creator  |-> sender,
                      question |-> question,
                      options  |-> new_options(options)]
         IN  [result |-> "Ok", polls |-> save(ps, poll_id, poll)]

----------------------------------------------------------------------------
(* execute_vote: the handler's result and the POLLS and BALLOTS it leaves. *)
(* `old` is the ballot BALLOTS.update handed to the closure.               *)

\* the closure of BALLOTS.update: the poll after the old vote is taken
\* back, or None when the closure panics (unwrap of None, or `-= 1` on 0)
take_back_old_vote(checks, poll, ballot) ==
    IF ballot = None
    THEN Some(poll)
    ELSE LET position_of_old_vote == position(poll.options, unwrap(ballot).option)
         IN  IF position_of_old_vote = None
             THEN None
             ELSE LET i == unwrap(position_of_old_vote)
                      c == checked_dec(checks, poll.options[i][2])
                  IN  IF c = None
                      THEN None
                      ELSE Some([poll EXCEPT
                                   !.options = set_count(poll.options, i, unwrap(c))])

\* mutant of count_new_vote: the poll is saved before the new label is looked up
count_new_vote_saves_on_failure(checks, ps, bs, poll, poll_id, vote, old) ==
    LET pos == position(poll.options, vote)
    IN  IF pos = None
        THEN [result |-> "Unauthorized", polls |-> save(ps, poll_id, poll),
              ballots |-> bs, old |-> old]
        ELSE LET i == unwrap(pos)
                 c == checked_inc(checks, poll.options[i][2])
             IN  IF c = None
                 THEN [result |-> "Panic", polls |-> ps, ballots |-> bs, old |-> old]
                 ELSE [result  |-> "Ok",
                       polls   |-> save(ps, poll_id,
                                        [poll EXCEPT !.options =
                                            set_count(poll.options, i, unwrap(c))]),
                       ballots |-> bs,
                       old     |-> old]

\* lines 120-130: the new vote is counted and the poll saved
count_new_vote(checks, ps, bs, poll, poll_id, vote, old) ==
    LET pos == position(poll.options, vote)
    IN  IF pos = None
        THEN [result |-> "Unauthorized", polls |-> ps, ballots |-> bs, old |-> old]
        ELSE LET i == unwrap(pos)
                 c == checked_inc(checks, poll.options[i][2])
             IN  IF c = None
                 THEN [result |-> "Panic", polls |-> ps, ballots |-> bs, old |-> old]
                 ELSE [result  |-> "Ok",
                       polls   |-> save(ps, poll_id,
                                        [poll EXCEPT !.options =
                                            set_count(poll.options, i, unwrap(c))]),
                       ballots |-> bs,
                       old     |-> old]

\* cast_vote with the new label validated against the Poll before the Ballot
\* is written (the order the design notes ask for): the handler with the
\* test of lines 121-124 made before BALLOTS.update
execute_vote_validate_first(ps, bs, checks, sender, poll_id, vote) ==
    LET loaded == may_load(ps, poll_id)
        key    == <<sender, poll_id>>
        ballot == may_load(bs, key)
    IN  IF loaded = None
        THEN [result |-> "PollNotFound", polls |-> ps, ballots |-> bs, old |-> None]
        ELSE IF position(unwrap(loaded).options, vote) = None
        THEN [result |-> "Unauthorized", polls |-> ps, ballots |-> bs, old |-> ballot]
        ELSE LET poll == take_back_old_vote(checks, unwrap(loaded), ballot)
             IN  IF poll = None
                 THEN [result |-> "Panic", polls |-> ps, ballots |-> bs, old |-> ballot]
                 ELSE count_new_vote(checks, ps,
                                     save(bs, key, [option |-> vote]),
                                     unwrap(poll), poll_id, vote, ballot)

\* mutant of execute_vote: the Ballot is saved with the Poll, on success only
execute_vote_saves_ballot_last(ps, bs, checks, sender, poll_id, vote) ==
    LET loaded == may_load(ps, poll_id)
    IN  IF loaded = None
        THEN [result |-> "PollNotFound", polls |-> ps, ballots |-> bs, old |-> None]
        ELSE LET key    == <<sender, poll_id>>
                 ballot == may_load(bs, key)
                 poll   == take_back_old_vote(checks, unwrap(loaded), ballot)
             IN  IF poll = None
                 THEN [result |-> "Panic", polls |-> ps, ballots |-> bs, old |-> ballot]
                 ELSE LET r == count_new_vote(checks, ps, bs, unwrap(poll),
                                              poll_id, vote, ballot)
                      IN  IF r.result = "Ok"
                          THEN [r EXCEPT !.ballots = save(bs, key, [option |-> vote])]
                          ELSE r

\* mutant of execute_vote: the Ballot is written before the poll is looked up
execute_vote_ballot_first(ps, bs, checks, sender, poll_id, vote) ==
    LET loaded == may_load(ps, poll_id)
        key    == <<sender, poll_id>>
        ballot == may_load(bs, key)
    IN  IF loaded = None
        THEN [result |-> "PollNotFound", polls |-> ps,
              ballots |-> save(bs, key, [option |-> vote]), old |-> None]
        ELSE LET poll == take_back_old_vote(checks, unwrap(loaded), ballot)
             IN  IF poll = None
                 THEN [result |-> "Panic", polls |-> ps, ballots |-> bs, old |-> ballot]
                 ELSE count_new_vote(checks, ps,
                                     save(bs, key, [option |-> vote]),
                                     unwrap(poll), poll_id, vote, ballot)

execute_vote(ps, bs, checks, sender, poll_id, vote) ==
    LET loaded == may_load(ps, poll_id)
    IN  IF loaded = None
        THEN [result |-> "PollNotFound", polls |-> ps, ballots |-> bs, old |-> None]
        ELSE LET key    == <<sender, poll_id>>
                 ballot == may_load(bs, key)
                 poll   == take_back_old_vote(checks, unwrap(loaded), ballot)
             IN  IF poll = None
                 THEN [result |-> "Panic", polls |-> ps, ballots |-> bs, old |-> ballot]
                 ELSE count_new_vote(checks, ps,
                                     save(bs, key, [option |-> vote]),
                                     unwrap(poll), poll_id, vote, ballot)

----------------------------------------------------------------------------
(* Queries *)

\* byte-wise lexicographic order of two keys
key_less(a, b) ==
    \E i \in 1..(Len(a) + 1) :
        /\ \A j \in 1..(i - 1) : j <= Len(b) /\ a[j] = b[j]
        /\ i <= Len(b)
        /\ (i = Len(a) + 1 \/ a[i] < b[i])

\* mutant of range_ascending: Order::Descending
RECURSIVE range_descending(_, _)
range_descending(map, keys) ==
    IF keys = {} THEN <<>>
    ELSE LET k == CHOOSE x \in keys : \A y \in keys \ {x} : key_less(y, x)
         IN  <<map[k]>> \o range_descending(map, keys \ {k})

\* POLLS.range(.., None, None, Order::Ascending): the values, by ascending key
RECURSIVE range_ascending(_, _)
range_ascending(map, keys) ==
    IF keys = {} THEN <<>>
    ELSE LET k == CHOOSE x \in keys : \A y \in keys \ {x} : key_less(x, y)
         IN  <<map[k]>> \o range_ascending(map, keys \ {k})

query_all_polls(ps) == [polls |-> range_ascending(ps, DOMAIN ps)]

query_poll(ps, poll_id) == [poll |-> may_load(ps, poll_id)]

\* deps.api.addr_validate(&address)
addr_validate(address) == IF address \in Accounts THEN Some(address) ELSE None

\* mutant of query_vote: the composite key is built as (poll_id, address)
query_vote_swapped_key(bs, address, poll_id) ==
    LET validated_address == addr_validate(address)
    IN  IF validated_address = None
        THEN None
        ELSE Some([vote |-> may_load(bs, <<poll_id, unwrap(validated_address)>>)])

\* None: the unwrap of the failed validation panics
query_vote(bs, address, poll_id) ==
    LET validated_address == addr_validate(address)
    IN  IF validated_address = None
        THEN None
        ELSE Some([vote |-> may_load(bs, <<unwrap(validated_address), poll_id>>)])

----------------------------------------------------------------------------
(* The state machine *)

NoMessage == [op |-> "none", result |-> "Ok"]

NoShadow == [on |-> FALSE]

Init ==
    /\ polls = <<>>
    /\ ballots = <<>>
    /\ overflow_checks \in BOOLEAN
    /\ created = {}
    /\ nops = 0
    /\ last = NoMessage
    /\ shadow = NoShadow

\* the validate-first contract starts from the same empty storage
InitV ==
    /\ polls = <<>>
    /\ ballots = <<>>
    /\ overflow_checks \in BOOLEAN
    /\ created = {}
    /\ nops = 0
    /\ last = NoMessage
    /\ shadow = [on |-> TRUE, polls |-> <<>>, ballots |-> <<>>, result |-> "Ok"]

\* the validate-first contract handles the same create_poll
shadow_create_poll(sh, sender, poll_id, question, options) ==
    IF ~sh.on THEN sh
    ELSE LET r == execute_create_poll(sh.polls, sender, poll_id, question, options)
         IN  [on |-> TRUE, polls |-> r.polls, ballots |-> sh.ballots,
              result |-> r.result]

\* the validate-first contract handles the same cast_vote
shadow_vote(sh, checks, sender, poll_id, vote) ==
    IF ~sh.on THEN sh
    ELSE LET r == execute_vote_validate_first(sh.polls, sh.ballots, checks,
                                              sender, poll_id, vote)
         IN  [on |-> TRUE, polls |-> r.polls, ballots |-> r.ballots,
              result |-> r.result]

Running == last.result # "Panic"

CreatePoll(limit, ids) ==
    /\ Running
    /\ nops < limit
    /\ \E sender \in Accounts, poll_id \in ids,
          question \in Questions, options \in OptionLists :
          LET r == execute_create_poll(polls, sender, poll_id, question, options)
          IN  /\ polls' = r.polls
              /\ created' = IF r.result = "Ok" THEN created \cup {poll_id} ELSE created
              /\ last' = [op |-> "create_poll", sender |-> sender, poll_id |-> poll_id,
                          question |-> question, options |-> options,
                          result |-> r.result]
              /\ shadow' = shadow_create_poll(shadow, sender, poll_id, question, options)
    /\ nops' = nops + 1
    /\ UNCHANGED <<ballots, overflow_checks>>

Vote(limit, ids) ==
    /\ Running
    /\ nops < limit
    /\ \E sender \in Accounts, poll_id \in ids, vote \in VoteLabels :
          LET r == execute_vote(polls, ballots, overflow_checks, sender, poll_id, vote)
          IN  /\ polls' = r.polls
              /\ ballots' = r.ballots
              /\ last' = [op |-> "vote", sender |-> sender, poll_id |-> poll_id,
                          vote |-> vote, old |-> r.old, result |-> r.result]
              /\ shadow' = shadow_vote(shadow, overflow_checks, sender, poll_id, vote)
    /\ nops' = nops + 1
    /\ UNCHANGED <<overflow_checks, created>>

QueryAllPolls ==
    /\ Running
    /\ last' = [op |-> "all_polls", result |-> "Ok", response |-> query_all_polls(polls)]
    /\ UNCHANGED <<polls, ballots, overflow_checks, created, nops, shadow>>

QueryPoll ==
    /\ Running
    /\ \E poll_id \in QueryPollIds :
          last' = [op |-> "poll", poll_id |-> poll_id, result |-> "Ok",
                   response |-> query_poll(polls, poll_id)]
    /\ UNCHANGED <<polls, ballots, overflow_checks, created, nops, shadow>>

QueryVote ==
    /\ Running
    /\ \E address \in Addresses, poll_id \in PollIds :
          LET r == query_vote(ballots, address, poll_id)
          IN  last' = IF r = None
                      THEN [op |-> "vote_of", address |-> address, poll_id |-> poll_id,
                            result |-> "Panic"]
                      ELSE [op |-> "vote_of", address |-> address, poll_id |-> poll_id,
                            result |-> "Ok", response |-> unwrap(r)]
    /\ UNCHANGED <<polls, ballots, overflow_checks, created, nops, shadow>>

\* the execute messages alone
Next == CreatePoll(MaxOps, PollIds) \/ Vote(MaxOps, PollIds)

Spec == Init /\ [][Next]_vars

\* execute messages and queries
NextQ ==
    \/ CreatePoll(MaxQueryOps, QueryPollIds)
    \/ Vote(MaxQueryOps, PollIds)
    \/ QueryAllPolls
    \/ QueryPoll
    \/ QueryVote

SpecQ == Init /\ [][NextQ]_vars

\* the execute messages, handled by the contract and by its validate-first
\* variant side by side
NextV == CreatePoll(MaxOps, PollIds) \/ Vote(MaxOps, PollIds)

SpecV == InitV /\ [][NextV]_vars

----------------------------------------------------------------------------
(* Vocabulary of the properties *)

LabelsOf(poll) == {poll.options[i][1] : i \in 1..Len(poll.options)}

DistinctLabels(poll) ==
    \A i, j \in 1..Len(poll.options) :
        poll.options[i][1] = poll.options[j][1] => i = j

\* the accounts holding a Ballot in poll `poll_id`
VotersIn(bs, poll_id) == {a \in Accounts : <<a, poll_id>> \in DOMAIN bs}

\* the accounts whose Ballot in poll `poll_id` names `label`
VotersFor(bs, poll_id, label) ==
    {a \in VotersIn(bs, poll_id) : bs[<<a, poll_id>>].option = label}

RECURSIVE SumOfCounts(_)
SumOfCounts(options) ==
    IF options = <<>> THEN 0 ELSE Head(options)[2] + SumOfCounts(Tail(options))

\* the step handles cast_vote(sender, poll_id, vote)
VoteStep(sender, poll_id, vote) ==
    /\ last'.op = "vote"
    /\ last'.sender = sender
    /\ last'.poll_id = poll_id
    /\ last'.vote = vote

\* the step handles a create_poll
CreateStep == last'.op = "create_poll"

\* the same labels in the same order, whatever the counts
SameLabels(p, q) ==
    /\ Len(p.options) = Len(q.options)
    /\ \A i \in 1..Len(p.options) : p.options[i][1] = q.options[i][1]

----------------------------------------------------------------------------
(* C1. Tally invariant: in every reachable state, for every stored Poll    *)
(* and every option of it, the option's count equals the number of Ballots *)
(* stored for that poll_id whose option equals that label.  Stated for the *)
(* polls whose labels are pairwise distinct, the ones the interface        *)
(* admits.  The code breaks it: a revote to a label the poll lacks         *)
(* replaces the Ballot and leaves the old count, and a create_poll on a    *)
(* used poll_id resets the counts and leaves the Ballots.                  *)
TallyInvariant ==
    \A poll_id \in DOMAIN polls :
        DistinctLabels(polls[poll_id]) =>
            \A i \in 1..Len(polls[poll_id].options) :
                polls[poll_id].options[i][2] =
                    Cardinality(VotersFor(ballots, poll_id, polls[poll_id].options[i][1]))

(* C2. Sum invariant: in every reachable state, for every stored Poll the  *)
(* sum of its option counts equals the number of Ballots stored under that *)
(* poll_id.  The code breaks it: a first vote for a label the poll lacks   *)
(* stores a Ballot and counts nothing.                                     *)
SumInvariant ==
    \A poll_id \in DOMAIN polls :
        SumOfCounts(polls[poll_id].options) = Cardinality(VotersIn(ballots, poll_id))

(* C3. Revote: whenever an account holds a Ballot for label A of poll P    *)
(* and B is another label of P, cast_vote(account, P, B) succeeds, every   *)
(* option labelled A loses exactly 1, every option labelled B gains        *)
(* exactly 1, every other count and the sum are unchanged, and get_vote    *)
(* then returns B.  The code breaks it where the Ballot is older than the  *)
(* Poll (C1): A's count is 0 and the decrement panics or wraps.            *)
RevoteMovesOneVote ==
    [][\A sender \in Accounts, poll_id \in PollIds, vote \in VoteLabels :
         ( /\ VoteStep(sender, poll_id, vote)
           /\ poll_id \in DOMAIN polls
           /\ <<sender, poll_id>> \in DOMAIN ballots
           /\ ballots[<<sender, poll_id>>].option \in LabelsOf(polls[poll_id])
           /\ vote \in LabelsOf(polls[poll_id])
           /\ vote # ballots[<<sender, poll_id>>].option )
         => LET A   == ballots[<<sender, poll_id>>].option
                old == polls[poll_id]
                new == polls'[poll_id]
            IN  /\ last'.result = "Ok"
                /\ SameLabels(old, new)
                /\ \A i \in 1..Len(old.options) :
                      new.options[i][2] =
                          CASE old.options[i][1] = A    -> old.options[i][2] - 1
                            [] old.options[i][1] = vote -> old.options[i][2] + 1
                            [] OTHER                    -> old.options[i][2]
                /\ SumOfCounts(new.options) = SumOfCounts(old.options)
                /\ query_vote(ballots', sender, poll_id)
                      = Some([vote |-> Some([option |-> vote])])
      ]_vars

(* C4. First vote: whenever an account has no Ballot in an existing poll P *)
(* (of pairwise distinct labels) and opt is a label of P,                  *)
(* cast_vote(account, P, opt) succeeds, the count of opt grows by exactly  *)
(* 1, no other count changes, and a Ballot naming opt is stored for        *)
(* (account, P).  The code breaks it in a build without overflow checks:   *)
(* a count that an earlier revote wrapped below 0 (C1) wraps back to 0.    *)
FirstVoteCountsOnce ==
    [][\A sender \in Accounts, poll_id \in PollIds, vote \in VoteLabels :
         ( /\ VoteStep(sender, poll_id, vote)
           /\ poll_id \in DOMAIN polls
           /\ <<sender, poll_id>> \notin DOMAIN ballots
           /\ DistinctLabels(polls[poll_id])
           /\ vote \in LabelsOf(polls[poll_id]) )
         => LET old == polls[poll_id]
                new == polls'[poll_id]
            IN  /\ last'.result = "Ok"
                /\ SameLabels(old, new)
                /\ \A i \in 1..Len(old.options) :
                      new.options[i][2] =
                          IF old.options[i][1] = vote
                          THEN old.options[i][2] + 1
                          ELSE old.options[i][2]
                /\ <<sender, poll_id>> \in DOMAIN ballots'
                /\ ballots'[<<sender, poll_id>>] = [option |-> vote]
      ]_vars

(* C5. cast_vote(voter, poll_id, opt) on an existing poll whose options do *)
(* not contain opt fails with Unauthorized, whether or not the voter holds *)
(* a Ballot in that poll.  The code breaks it where the voter's Ballot     *)
(* names a label the poll lacks (C1): the unwrap of the old vote's         *)
(* position panics before the new label is looked up.                      *)
UnknownOptionIsUnauthorized ==
    [][\A sender \in Accounts, poll_id \in PollIds, vote \in VoteLabels :
         ( /\ VoteStep(sender, poll_id, vote)
           /\ poll_id \in DOMAIN polls
           /\ vote \notin LabelsOf(polls[poll_id]) )
         => last'.result = "Unauthorized"
      ]_vars

(* C6. cast_vote on a poll_id that is not in the Poll Registry fails with  *)
(* PollNotFound and writes nothing: no Ballot and no Poll is created or    *)
(* changed.                                                                *)
MissingPollWritesNothing ==
    [][\A sender \in Accounts, poll_id \in PollIds, vote \in VoteLabels :
         (VoteStep(sender, poll_id, vote) /\ poll_id \notin DOMAIN polls)
         => /\ last'.result = "PollNotFound"
            /\ polls' = polls
            /\ ballots' = ballots
      ]_vars

\* a vote on a missing poll was refused while another poll and a Ballot exist
MissingPollWitness ==
    /\ last.op = "vote"
    /\ last.result = "PollNotFound"
    /\ last.poll_id \notin DOMAIN polls
    /\ DOMAIN polls # {}
    /\ DOMAIN ballots # {}

(* C7. create_poll with at most 5 options (exactly 5 included) succeeds    *)
(* and stores the poll; with more than 5 it fails with TooManyOptions      *)
(* before any write: the Poll Registry and the Ballot Ledger are unchanged *)
(* and no poll appears under that id.                                      *)
OptionCeiling ==
    [][CreateStep =>
         IF Len(last'.options) <= 5
         THEN /\ last'.result = "Ok"
              /\ last'.poll_id \in DOMAIN polls'
         ELSE /\ last'.result = "TooManyOptions"
              /\ polls' = polls
              /\ ballots' = ballots
              /\ (last'.poll_id \notin DOMAIN polls => last'.poll_id \notin DOMAIN polls')
      ]_vars

\* a poll of exactly 5 options is stored, and a create_poll with 6 options
\* on an unused id has just been refused
OptionCeilingWitness ==
    /\ last.op = "create_poll"
    /\ Len(last.options) = 6
    /\ last.result = "TooManyOptions"
    /\ last.poll_id \notin DOMAIN polls
    /\ \E poll_id \in DOMAIN polls : Len(polls[poll_id].options) = 5

(* C8. After a successful create_poll(poll_id, question, options) by a     *)
(* caller, get_poll(poll_id) returns a Poll whose creator is the caller,   *)
(* whose question is the given one and whose options are the given labels  *)
(* in the given order, each with count 0.                                  *)
CreatedPollIsReturned ==
    (last.op = "create_poll" /\ last.result = "Ok")
    => /\ query_poll(polls, last.poll_id).poll # None
       /\ LET poll == unwrap(query_poll(polls, last.poll_id).poll)
          IN  /\ poll.creator = last.sender
              /\ poll.question = last.question
              /\ Len(poll.options) = Len(last.options)
              /\ \A i \in 1..Len(last.options) :
                    poll.options[i] = <<last.options[i], 0>>

\* the second account has just re-created a voted poll with 5 labels
CreatedPollWitness ==
    /\ last.op = "create_poll"
    /\ last.result = "Ok"
    /\ last.sender = ADDR2
    /\ Len(last.options) = 5
    /\ <<ADDR1, last.poll_id>> \in DOMAIN ballots

\* byte-wise lexicographic order of two poll_ids, by recursion on the strings
RECURSIVE IdPrecedes(_, _)
IdPrecedes(a, b) ==
    IF b = <<>> THEN FALSE
    ELSE IF a = <<>> THEN TRUE
    ELSE \/ Head(a) < Head(b)
         \/ Head(a) = Head(b) /\ IdPrecedes(Tail(a), Tail(b))

\* `listed` holds the polls stored under `ids`, each id once, ids ascending
ListsAscending(listed, ps, ids) ==
    /\ Len(listed) = Cardinality(ids)
    /\ \E order \in [1..Len(listed) -> ids] :
          /\ \A i, j \in 1..Len(listed) : i < j => IdPrecedes(order[i], order[j])
          /\ \A i \in 1..Len(listed) : listed[i] = ps[order[i]]

(* C9. list_polls returns the stored Polls by ascending poll_id, as many   *)
(* as there are distinct poll_ids for which a create_poll has succeeded (0 *)
(* when none has), and no poll ever disappears: every poll_id once created *)
(* is stored and listed.                                                   *)
ListPollsAscending ==
    /\ created \subseteq DOMAIN polls
    /\ last.op = "all_polls" =>
          /\ last.result = "Ok"
          /\ Len(last.response.polls) = Cardinality(created)
          /\ ListsAscending(last.response.polls, polls, created)

\* three different polls are listed
ListPollsWitness ==
    /\ last.op = "all_polls"
    /\ Len(last.response.polls) = 3
    /\ last.response.polls[1] # last.response.polls[2]
    /\ last.response.polls[2] # last.response.polls[3]
    /\ last.response.polls[1] # last.response.polls[3]

\* nothing is listed before the first create_poll
ListPollsEmptyWitness ==
    /\ last.op = "all_polls"
    /\ last.response.polls = <<>>

(* C10. get_poll(poll_id) and get_vote(account, poll_id) succeed and       *)
(* return exactly the record stored under that key, or absent when none is *)
(* stored under it; get_vote is absent for an account that never voted in  *)
(* that poll.  (An address string that is no account is not covered: there *)
(* query_vote panics on the unwrap of addr_validate.)                      *)
QueriesReturnStored ==
    /\ last.op = "poll" =>
          /\ last.result = "Ok"
          /\ last.response.poll =
                IF last.poll_id \in DOMAIN polls
                THEN <<polls[last.poll_id]>> ELSE <<>>
    /\ (last.op = "vote_of" /\ last.address \in Accounts) =>
          /\ last.result = "Ok"
          /\ last.response.vote =
                IF <<last.address, last.poll_id>> \in DOMAIN ballots
                THEN <<ballots[<<last.address, last.poll_id>>]>> ELSE <<>>

\* get_vote is absent for an account that has not voted in a poll where
\* the other account has
QueriesWitness ==
    /\ last.op = "vote_of"
    /\ last.result = "Ok"
    /\ last.response.vote = <<>>
    /\ last.poll_id \in DOMAIN polls
    /\ \E a \in Accounts : <<a, last.poll_id>> \in DOMAIN ballots

(* C11. Ballot validity: in every reachable state, every Ballot stored     *)
(* under (account, poll_id) names a label of the Poll stored under         *)
(* poll_id.  The code breaks it: BALLOTS.update saves the Ballot before    *)
(* the label is looked up, and create_poll replaces a Poll whose Ballots   *)
(* stay.                                                                   *)
BallotValidity ==
    \A key \in DOMAIN ballots :
        /\ key[2] \in DOMAIN polls
        /\ ballots[key].option \in LabelsOf(polls[key[2]])

(* C12. cast_vote never aborts: whenever it finds a Ballot for (voter,     *)
(* poll_id), the Ballot's label is found in the Poll, so every cast_vote   *)
(* ends in success, PollNotFound or Unauthorized.  The code breaks it      *)
(* where the stored Ballot names a label the poll lacks (C11).             *)
VoteNeverAborts ==
    last.op = "vote" => last.result \in {"Ok", "PollNotFound", "Unauthorized"}

(* C13. Counts never go below zero: the revote decrement of the old        *)
(* option's count is applied only to a count of at least 1.  The code      *)
(* breaks it where the Ballot is older than the Poll (C1): the count is 0. *)
DecrementNeverUnderflows ==
    [][\A sender \in Accounts, poll_id \in PollIds, vote \in VoteLabels :
         ( /\ VoteStep(sender, poll_id, vote)
           /\ poll_id \in DOMAIN polls
           /\ <<sender, poll_id>> \in DOMAIN ballots
           /\ ballots[<<sender, poll_id>>].option \in LabelsOf(polls[poll_id]) )
         => LET options == polls[poll_id].options
                i == unwrap(position(options, ballots[<<sender, poll_id>>].option))
            IN  options[i][2] >= 1
      ]_vars

(* C14. Write order in cast_vote: the Ballot is written before the chosen  *)
(* option is validated, so when cast_vote(voter, poll_id, opt) fails with  *)
(* Unauthorized the Ballot Ledger holds opt for (voter, poll_id) and       *)
(* get_vote(voter, poll_id) returns that invalid option.                   *)
UnauthorizedVoteIsStored ==
    (last.op = "vote" /\ last.result = "Unauthorized")
    => /\ last.poll_id \in DOMAIN polls
       /\ last.vote \notin LabelsOf(polls[last.poll_id])
       /\ <<last.sender, last.poll_id>> \in DOMAIN ballots
       /\ ballots[<<last.sender, last.poll_id>>] = [option |-> last.vote]
       /\ query_vote(ballots, last.sender, last.poll_id)
             = Some([vote |-> Some([option |-> last.vote])])

\* a Ballot for Now has just been replaced by one for Pizza, refused
UnauthorizedVoteWitness ==
    /\ last.op = "vote"
    /\ last.result = "Unauthorized"
    /\ last.old = Some([option |-> "Now"])
    /\ ballots[<<last.sender, last.poll_id>>].option = "Pizza"

(* C15. A cast_vote that fails with PollNotFound or Unauthorized leaves    *)
(* every stored Poll unchanged: the decrement of a failed revote is made   *)
(* on the loaded copy and never saved.                                     *)
FailedVoteKeepsPolls ==
    [][(last'.op = "vote" /\ last'.result \in {"PollNotFound", "Unauthorized"})
         => polls' = polls
      ]_vars

\* a revote has just failed whose old option is counted in the stored Poll
FailedVoteWitness ==
    /\ last.op = "vote"
    /\ last.result = "Unauthorized"
    /\ last.old # None
    /\ \E i \in 1..Len(polls[last.poll_id].options) :
          /\ polls[last.poll_id].options[i][1] = unwrap(last.old).option
          /\ polls[last.poll_id].options[i][2] >= 1

(* C16. cast_vote(voter, poll_id, opt) changes at most the Ballot stored   *)
(* under (voter, poll_id) and the option counts of the Poll stored under   *)
(* poll_id: every other Ballot, every other Poll, and the creator,         *)
(* question, labels and label order of the voted Poll are unchanged.       *)
VoteFrame ==
    [][\A sender \in Accounts, poll_id \in PollIds, vote \in VoteLabels :
         VoteStep(sender, poll_id, vote)
         => /\ DOMAIN ballots' \ {<<sender, poll_id>>}
                  = DOMAIN ballots \ {<<sender, poll_id>>}
            /\ \A key \in DOMAIN ballots \ {<<sender, poll_id>>} :
                  ballots'[key] = ballots[key]
            /\ DOMAIN polls' = DOMAIN polls
            /\ \A other \in DOMAIN polls \ {poll_id} : polls'[other] = polls[other]
            /\ poll_id \in DOMAIN polls =>
                  /\ polls'[poll_id].creator = polls[poll_id].creator
                  /\ polls'[poll_id].question = polls[poll_id].question
                  /\ SameLabels(polls[poll_id], polls'[poll_id])
      ]_vars

\* a revote has just succeeded while the other account holds a Ballot and a
\* second poll is stored
VoteFrameWitness ==
    /\ last.op = "vote"
    /\ last.result = "Ok"
    /\ last.old # None
    /\ unwrap(last.old).option # last.vote
    /\ \E key \in DOMAIN ballots : key[1] # last.sender
    /\ \E other \in DOMAIN polls : other # last.poll_id

(* C17. create_poll with a poll_id that is already stored (and at most 5   *)
(* options) succeeds and replaces the stored Poll; create_poll never       *)
(* changes a Ballot (those cast under that poll_id included) nor a Poll    *)
(* stored under another poll_id.                                           *)
CreateOverwritesOnlyItsPoll ==
    [][CreateStep =>
         /\ (last'.poll_id \in DOMAIN polls /\ Len(last'.options) <= 5) =>
               /\ last'.result = "Ok"
               /\ polls'[last'.poll_id] =
                     [creator  |-> last'.sender,
                      question |-> last'.question,
                      options  |-> [i \in 1..Len(last'.options) |->
                                       <<last'.options[i], 0>>]]
         /\ ballots' = ballots
         /\ DOMAIN polls' \ {last'.poll_id} = DOMAIN polls \ {last'.poll_id}
         /\ \A other \in DOMAIN polls \ {last'.poll_id} : polls'[other] = polls[other]
      ]_vars

\* a poll has just been re-created with other labels than a Ballot cast in
\* it names, while a second poll is stored
CreateOverwritesWitness ==
    /\ last.op = "create_poll"
    /\ last.result = "Ok"
    /\ \E key \in DOMAIN ballots :
          /\ key[2] = last.poll_id
          /\ ballots[key].option \notin LabelsOf(polls[last.poll_id])
    /\ \E other \in DOMAIN polls : other # last.poll_id

(* C18. In every stored Poll the option labels are pairwise distinct,     *)
(* whatever option lists of at most 5 entries create_poll is given.  The   *)
(* code breaks it: execute_create_poll tests only the length of the list.  *)
StoredLabelsDistinct ==
    \A poll_id \in DOMAIN polls : DistinctLabels(polls[poll_id])

(* C19. Outcome equivalence with validate-first voting: for every sequence *)
(* of create_poll and cast_vote requests, cast_vote as written and the     *)
(* variant that validates the chosen option before writing the Ballot      *)
(* return the same outcome for every request.  The code breaks it: the     *)
(* Ballot it stores on Unauthorized (C11) makes the voter's next cast_vote *)
(* panic, where the variant succeeds.                                      *)
SameOutcomeAsValidateFirst ==
    (shadow.on /\ last.op \in {"create_poll", "vote"}) => shadow.result = last.result

(* C20. Votes by different accounts commute: from any reachable state, two *)
(* cast_vote requests of two different accounts get the same outcomes and  *)
(* leave the same Poll Registry and Ballot Ledger in either order.  (A     *)
(* request that aborts leaves the storage as it was at the abort.)  The    *)
(* code breaks it with overflow checks where a Ballot is older than its    *)
(* Poll (C1): the revote panics on count 0 unless the other vote has       *)
(* raised that count first.                                                *)
VotesOfTwoAccountsCommute ==
    Running =>
    \A p1, p2 \in PollIds, v1, v2 \in VoteLabels :
        LET a1 == execute_vote(polls, ballots, overflow_checks, ADDR1, p1, v1)
            b2 == execute_vote(a1.polls, a1.ballots, overflow_checks, ADDR2, p2, v2)
            b1 == execute_vote(polls, ballots, overflow_checks, ADDR2, p2, v2)
            a2 == execute_vote(b1.polls, b1.ballots, overflow_checks, ADDR1, p1, v1)
        IN  /\ a1.result = a2.result
            /\ b1.result = b2.result
            /\ b2.polls = a2.polls
            /\ b2.ballots = a2.ballots

====
